---- MODULE Spec2Model ----
(***************************************************************************)
(* go-metrics-prometheus: the provider that republishes a go-metrics       *)
(* registry into a Prometheus registry (prometheusmetrics.go).             *)
(*                                                                         *)
(* Strings are sequences of one-character strings, so that flattenKey,     *)
(* strings.Contains and strings.Split are computed character by character. *)
(* Floats that the provider only passes through are integers.              *)
(***************************************************************************)
EXTENDS Integers, Sequences, FiniteSets, TLC

VARIABLES
    registry,       \* c.Registry: name -> metric object (go-metrics, read only)
    vecs,           \* heap of gauge collectors (GaugeVec, or a foreign Gauge)
    collectors,     \* heap of CustomCollector objects (field metric)
    promRegistered, \* c.promRegistry: ids of vecs registered with a descriptor
    promUnchecked,  \* c.promRegistry: ids of collectors registered without one
    gauges,         \* c.gauges: key -> id in vecs
    customMetrics,  \* c.customMetrics: key -> id in collectors
    labels,         \* c.labels
    gaugemutex,     \* c.gaugemutex: the thread holding it, or Free
    mutex,          \* c.mutex (shared by every CustomCollector)
    pc,             \* position of each thread
    frame,          \* locals of each publishing thread
    result,         \* what the last UpdatePrometheusMetricsOnce call of a thread gave
    scrape,         \* locals of the scraping thread (Collect)
    emitted,        \* metrics received from the channel of the Collect call in progress
    clock,          \* time since UpdatePrometheusMetrics was started
    ticker,         \* time.Tick(c.FlushInterval): [next, pending]
    log             \* history: what the provider did (read by the properties only)

vars == <<registry, vecs, collectors, promRegistered, promUnchecked, gauges,
          customMetrics, labels, gaugemutex, mutex, pc, frame, result, scrape,
          emitted, clock, ticker, log>>

----------------------------------------------------------------------------
(* Bounds of the model *)

MaxEntries == 2     \* entries in the source registry
MaxVal == 2         \* largest value a source metric or a sample holds
MaxCycles == 2      \* publish cycles started by one thread
MaxUpdates == 1     \* updates of source metrics while a cycle runs
MaxSamples == 2     \* samples held by a histogram or timer
MaxClock == 5       \* clock ticks
MaxScrapes == 2     \* Collect calls
MaxSrcOps == 2      \* Register/Unregister calls on the source registry
MaxExternals == 1   \* registrations by other users of the Prometheus registry
MaxLen == 3         \* characters in a name given to flattenKey

----------------------------------------------------------------------------
(* Strings *)

RECURSIVE IndexFrom(_, _, _)
\* the first index >= i at which sub occurs in s, or 0
IndexFrom(s, sub, i) ==
    IF i + Len(sub) - 1 > Len(s) THEN 0
    ELSE IF SubSeq(s, i, i + Len(sub) - 1) = sub THEN i
    ELSE IndexFrom(s, sub, i + 1)

Contains(s, sub) == IndexFrom(s, sub, 1) # 0

RECURSIVE Split(_, _)
Split(s, sep) ==
    LET i == IndexFrom(s, sep, 1) IN
    IF i = 0 THEN <<s>>
    ELSE <<SubSeq(s, 1, i - 1)>> \o Split(SubSeq(s, i + Len(sep), Len(s)), sep)

Replace(s, old, new) == [i \in 1..Len(s) |-> IF s[i] = old THEN new ELSE s[i]]

\* flattenKey without its last replacement
flattenKey_KeepSlash(key) ==
    Replace(Replace(Replace(Replace(key, " ", "_"), ".", "_"), "-", "_"), "=", "_")

flattenKey(key) ==
    Replace(Replace(Replace(Replace(Replace(key, " ", "_"), ".", "_"), "-", "_"), "=", "_"), "/", "_")

namespace == <<"t">>
subsystem == <<"s">>

createKey(name) == namespace \o <<"_">> \o subsystem \o <<"_">> \o name

\* prometheus.BuildFQName: the non-empty parts joined by "_"; empty if name is
BuildFQName(ns, ss, name) ==
    IF name = <<>> THEN <<>>
    ELSE (IF ns = <<>> THEN <<>> ELSE ns \o <<"_">>)
         \o (IF ss = <<>> THEN <<>> ELSE ss \o <<"_">>) \o name

GaugeFQName(name) == BuildFQName(flattenKey(namespace), flattenKey(subsystem), flattenKey(name))

HistogramFQName(name, typeName) ==
    BuildFQName(flattenKey(namespace), flattenKey(subsystem),
                flattenKey(name) \o <<"_">> \o typeName)

FOR_BROKER == <<"f", "o", "r", "-", "b", "r", "o", "k", "e", "r">>
FOR_TOPIC == <<"f", "o", "r", "-", "t", "o", "p", "i", "c">>

----------------------------------------------------------------------------
(* Structured-name extraction, lines 210-220.  The result is the name and   *)
(* the extra labels, or a panic: split[1] of a one-element slice.           *)

NoLabels == <<>>

ExtractOne(parsed, pattern, label) ==
    IF parsed.panic \/ ~Contains(parsed.name, pattern) THEN parsed
    ELSE LET split == Split(parsed.name, <<"-">> \o pattern \o <<"-">>) IN
         IF Len(split) < 2
         THEN [parsed EXCEPT !.panic = TRUE]
         ELSE [name |-> split[1] \o <<"-">> \o pattern,
               extraLabels |-> (label :> split[2]) @@ parsed.extraLabels,
               panic |-> FALSE]

ParseName(name) ==
    ExtractOne(ExtractOne([name |-> name, extraLabels |-> NoLabels, panic |-> FALSE],
                          FOR_BROKER, "for_broker"),
               FOR_TOPIC, "for_topic")

----------------------------------------------------------------------------
(* Source metrics (go-metrics).  A metric object is                        *)
(* [kind, val, samples, stats]: val is Count()/Value(), samples the        *)
(* reservoir in insertion order, stats the float accessors of a snapshot,  *)
(* which the provider passes through unchanged.                            *)

Kinds == {"Counter", "Gauge", "GaugeFloat64", "Histogram", "Meter", "Timer", "Other"}
Recognized == Kinds \ {"Other"}

NoStats == [rate1 |-> 0, rate5 |-> 0, rate15 |-> 0, rateMean |-> 0,
            mean |-> 0, variance |-> 0, stdDev |-> 0]
\* the accessors of a meter or timer that has seen v events: pairwise distinct
StatsOf(v) == [rate1 |-> 10 * v + 11, rate5 |-> 10 * v + 12, rate15 |-> 10 * v + 13,
               rateMean |-> 10 * v + 14, mean |-> 10 * v + 15,
               variance |-> 10 * v + 16, stdDev |-> 10 * v + 17]

Metric(kind, val, samples) ==
    [kind |-> kind, val |-> val, samples |-> samples,
     stats |-> IF kind \in {"Meter", "Timer"} THEN StatsOf(val) ELSE NoStats]

RECURSIVE SeqSum(_)
SeqSum(s) == IF s = <<>> THEN 0 ELSE Head(s) + SeqSum(Tail(s))

RECURSIVE SeqMax(_)
SeqMax(s) == IF s = <<>> THEN 0
             ELSE LET m == SeqMax(Tail(s)) IN
                  IF Len(s) = 1 \/ Head(s) > m THEN Head(s) ELSE m

RECURSIVE SeqMin(_)
SeqMin(s) == IF s = <<>> THEN 0
             ELSE LET m == SeqMin(Tail(s)) IN
                  IF Len(s) = 1 \/ Head(s) < m THEN Head(s) ELSE m

RECURSIVE Insert(_, _)
Insert(sorted, v) ==
    IF sorted = <<>> \/ v <= Head(sorted) THEN <<v>> \o sorted
    ELSE <<Head(sorted)>> \o Insert(Tail(sorted), v)

RECURSIVE Sort(_)
Sort(s) == IF s = <<>> THEN <<>> ELSE Insert(Sort(Tail(s)), Head(s))

\* metrics.SamplePercentile for p = b.num / b.den, converted with uint64(...)
Percentile(samples, b) ==
    LET values == Sort(samples)
        size == Len(values)
        posNum == b.num * (size + 1)
        floorPos == posNum \div b.den
    IN  IF size = 0 THEN 0
        ELSE IF posNum < b.den THEN values[1]
        ELSE IF posNum >= size * b.den THEN values[size]
        ELSE LET lower == values[floorPos]
                 upper == values[floorPos + 1]
             IN  lower + ((posNum % b.den) * (upper - lower)) \div b.den

Bucket(n, d) == [num |-> n, den |-> d]
histogramBuckets == <<Bucket(5, 100), Bucket(10, 100), Bucket(25, 100), Bucket(50, 100),
                      Bucket(75, 100), Bucket(90, 100), Bucket(95, 100), Bucket(99, 100)>>
timerBuckets == <<Bucket(50, 100), Bucket(95, 100), Bucket(99, 100), Bucket(999, 1000)>>

----------------------------------------------------------------------------
(* The callback of Registry.Each, lines 207-294: the calls it makes for one *)
(* entry, in order.  Meter and Timer values come from the one snapshot the  *)
(* callback takes; extraLabels is copied by each call as it is then.        *)

GaugeOp(name, val, extraLabels) ==
    [fn |-> "gauge", name |-> name, val |-> val, extraLabels |-> extraLabels, kind |-> ""]

HistOp(name, kind, extraLabels) ==
    [fn |-> "hist", name |-> name, val |-> 0, extraLabels |-> extraLabels, kind |-> kind]

RateUnit(extraLabels, unit) == ("rate_unit" :> <<unit>>) @@ extraLabels

Last(s) == s[Len(s)]

\* the other policy: a meter published as its one-minute rate only
MeterOps_Rate1Only(name, x, m) == <<GaugeOp(name, m.stats.rate1, x)>>

MeterOps(name, x, m) ==
    <<GaugeOp(name, m.stats.rate1, RateUnit(x, "rate1")),
      GaugeOp(name, m.stats.rate5, RateUnit(x, "rate5")),
      GaugeOp(name, m.stats.rate15, RateUnit(x, "rate15")),
      GaugeOp(name, m.stats.rateMean, RateUnit(x, "mean")),
      GaugeOp(name, m.val, RateUnit(x, "count"))>>

\* a timer published with the statistics and the labels of a meter
TimerOps_AsMeter(name, x, m) == <<HistOp(name, "Timer", x)>> \o MeterOps(name, x, m)

TimerOps(name, x, m) ==
    <<HistOp(name, "Timer", x),
      GaugeOp(name, m.stats.rate1, RateUnit(x, "rate1")),
      GaugeOp(name, m.stats.rate5, RateUnit(x, "rate5")),
      GaugeOp(name, m.stats.rate15, RateUnit(x, "rate15")),
      GaugeOp(name, m.stats.rateMean, RateUnit(x, "rate_mean")),
      GaugeOp(name, Len(m.samples), RateUnit(x, "count")),
      GaugeOp(name, SeqSum(m.samples), RateUnit(x, "sum")),
      GaugeOp(name, SeqMax(m.samples), RateUnit(x, "max")),
      GaugeOp(name, SeqMin(m.samples), RateUnit(x, "min")),
      GaugeOp(name, m.stats.mean, RateUnit(x, "mean")),
      GaugeOp(name, m.stats.variance, RateUnit(x, "variance")),
      GaugeOp(name, m.stats.stdDev, RateUnit(x, "std_dev"))>>

HistogramOps(name, x, m) ==
    (IF Len(m.samples) > 0 THEN <<GaugeOp(name, Last(m.samples), x)>> ELSE <<>>)
    \o <<HistOp(name, "Histogram", x)>>

OpsFor(name, x, m) ==
    CASE m.kind \in {"Counter", "Gauge", "GaugeFloat64"} -> <<GaugeOp(name, m.val, x)>>
      [] m.kind = "Histogram" -> HistogramOps(name, x, m)
      [] m.kind = "Meter" -> MeterOps(name, x, m)
      [] m.kind = "Timer" -> TimerOps(name, x, m)
      [] OTHER -> <<>>

----------------------------------------------------------------------------
(* The Prometheus registry (client_golang), as the provider uses it.  A     *)
(* collector with a descriptor is rejected when one of the same             *)
(* fully-qualified name is registered: with AlreadyRegisteredError if help  *)
(* and label names agree, with another error if they differ.  A collector   *)
(* whose Describe sends nothing (CustomCollector) is unchecked: accepted.   *)

Free == "free"
NoId == 0

NewGaugeVec(name, labelNames) ==
    [type |-> "GaugeVec", owner |-> "provider", fqName |-> GaugeFQName(name),
     help |-> name, labelNames |-> labelNames, vals |-> <<>>]

SameName(new) == {i \in promRegistered : vecs[i].fqName = new.fqName}

Register(new) ==
    LET same == SameName(new) IN
    IF same = {} THEN [err |-> "nil", existing |-> NoId]
    ELSE IF \E i \in same : vecs[i].help # new.help \/ vecs[i].labelNames # new.labelNames
    THEN [err |-> "error", existing |-> NoId]
    ELSE [err |-> "AlreadyRegistered", existing |-> CHOOSE i \in same : TRUE]

----------------------------------------------------------------------------
(* State *)

Publishers == {"once", "loop"}
NoName == <<>>
TypeName(kind) == IF kind = "Timer" THEN <<"t", "i", "m", "e", "r">>
                  ELSE <<"h", "i", "s", "t", "o", "g", "r", "a", "m">>
BucketsOf(kind) == IF kind = "Timer" THEN timerBuckets ELSE histogramBuckets

NoSnap == [fqName |-> <<>>, help |-> <<>>, labelVals |-> NoLabels,
           count |-> 0, sum |-> 0, buckets |-> <<>>]
\* an interface value: the type word and the data word
NilMetric == [tab |-> "nil", data |-> NoSnap]

EmptyFrame == [each |-> {}, seen |-> {}, translated |-> {}, entry |-> NoName,
               kind |-> "", ops |-> <<>>, g |-> NoId, collector |-> NoId, snap |-> NoSnap,
               cycles |-> 0, cause |-> "", read |-> <<>>]

EmptyLog == [gaugeRegs |-> <<>>, histRegs |-> <<>>, wrote |-> <<>>, stored |-> <<>>,
             dups |-> {},
             failures |-> {}, updates |-> 0, srcOps |-> 0, externals |-> 0,
             extRejected |-> {}, scrapes |-> 0, complete |-> <<>>,
             startedAt |-> 0, cycleAt |-> <<>>]

FlushInterval == 2

\* NewPrometheusProvider, lines 37-54, over an empty source registry
InitWith(l) ==
    /\ registry = <<>>
    /\ vecs = <<>>
    /\ collectors = <<>>
    /\ promRegistered = {}
    /\ promUnchecked = {}
    /\ gauges = <<>>
    /\ customMetrics = <<>>
    /\ labels = l
    /\ gaugemutex = Free
    /\ mutex = Free
    /\ pc = [once |-> "idle", loop |-> "off", scrape |-> "idle"]
    /\ frame = [t \in Publishers |-> EmptyFrame]
    /\ result = [t \in Publishers |-> "none"]
    /\ scrape = [collector |-> NoId, val |-> NilMetric, prior |-> NoSnap, storing |-> {}]
    /\ emitted = <<>>
    /\ clock = 0
    /\ ticker = [next |-> 0, pending |-> FALSE]
    /\ log = EmptyLog

Inc(f, k) == IF k \in DOMAIN f THEN [f EXCEPT ![k] = @ + 1] ELSE (k :> 1) @@ f
AddTo(f, k, v) == IF k \in DOMAIN f THEN [f EXCEPT ![k] = @ \cup {v}] ELSE (k :> {v}) @@ f
Put(f, k, v) == (k :> v) @@ f

\* no publisher is inside a cycle
Quiet == \A t \in Publishers : pc[t] \in {"idle", "off", "wait", "panicked"}

----------------------------------------------------------------------------
(* The application: the source registry and its metrics *)

SrcRegister(name, m) ==
    /\ Quiet
    /\ name \notin DOMAIN registry
    /\ Cardinality(DOMAIN registry) < MaxEntries
    /\ log.srcOps < MaxSrcOps
    /\ registry' = Put(registry, name, m)
    /\ log' = [log EXCEPT !.srcOps = @ + 1]
    /\ UNCHANGED <<vecs, collectors, promRegistered, promUnchecked, gauges, customMetrics,
                   labels, gaugemutex, mutex, pc, frame, result, scrape, emitted, clock, ticker>>

SrcUnregister(name) ==
    /\ Quiet
    /\ name \in DOMAIN registry
    /\ log.srcOps < MaxSrcOps
    /\ registry' = [n \in DOMAIN registry \ {name} |-> registry[n]]
    /\ log' = [log EXCEPT !.srcOps = @ + 1]
    /\ UNCHANGED <<vecs, collectors, promRegistered, promUnchecked, gauges, customMetrics,
                   labels, gaugemutex, mutex, pc, frame, result, scrape, emitted, clock, ticker>>

\* Inc/Update/Mark on a metric object: a new value, or one more sample
Updated(m, v) ==
    CASE m.kind \in {"Counter", "Gauge", "GaugeFloat64"} -> Metric(m.kind, v, <<>>)
      [] m.kind = "Meter" -> Metric(m.kind, m.val + 1, <<>>)
      [] m.kind = "Histogram" -> Metric(m.kind, 0, Append(m.samples, v))
      [] m.kind = "Timer" -> Metric(m.kind, Len(m.samples) + 1, Append(m.samples, v))
      [] OTHER -> m

\* Only the steps that read the source see when an update happens: an update
\* during another step is the same as one right after it.
SrcUpdate(name, v) ==
    /\ \A t \in Publishers : pc[t] \in {"idle", "off", "wait", "panicked", "each", "call", "h_insert"}
    /\ name \in DOMAIN registry
    /\ log.updates < MaxUpdates
    /\ Len(registry[name].samples) < MaxSamples
    /\ registry[name].val < MaxVal \/ registry[name].kind # "Meter"
    /\ Updated(registry[name], v) # registry[name]
    /\ registry' = [registry EXCEPT ![name] = Updated(@, v)]
    /\ log' = [log EXCEPT !.updates = @ + 1]
    /\ UNCHANGED <<vecs, collectors, promRegistered, promUnchecked, gauges, customMetrics,
                   labels, gaugemutex, mutex, pc, frame, result, scrape, emitted, clock, ticker>>

\* another user of the same Prometheus registry registers a collector of its own
\* (as the tests do, prometheusmetrics_test.go 28-34 and 48-54)
ExternalRegister(name, type) ==
    LET new == [NewGaugeVec(name, {}) EXCEPT !.type = type, !.owner = "external"]
        r == Register(new)
    IN  /\ Quiet
        /\ log.externals < MaxExternals
        /\ IF r.err = "nil"
           THEN /\ vecs' = Append(vecs, new)
                /\ promRegistered' = promRegistered \cup {Len(vecs) + 1}
                /\ log' = [log EXCEPT !.externals = @ + 1]
           ELSE /\ UNCHANGED <<vecs, promRegistered>>
                /\ log' = [log EXCEPT !.externals = @ + 1,
                                      !.extRejected = @ \cup {new.fqName}]
        /\ UNCHANGED <<registry, collectors, promUnchecked, gauges, customMetrics,
                       labels, gaugemutex, mutex, pc, frame, result, scrape, emitted, clock, ticker>>

----------------------------------------------------------------------------
(* UpdatePrometheusMetricsOnce, lines 206-296 *)

Op(t) == Head(frame[t].ops)

\* the labels a call passes on: c.labels, then extraLabels over them (89-98, 165-174)
LabelsOf(op) == op.extraLabels @@ labels

Panic(t, cause) ==
    /\ pc' = [pc EXCEPT ![t] = "panicked"]
    /\ frame' = [frame EXCEPT ![t].cause = cause]
    /\ result' = [result EXCEPT ![t] = "panic"]

\* the call at the head of ops has returned
Returned(t) ==
    /\ pc' = [pc EXCEPT ![t] = IF Len(frame[t].ops) = 1 THEN "each" ELSE "call"]
    /\ frame' = [frame EXCEPT ![t].ops = Tail(@),
                              ![t].translated = IF Len(frame[t].ops) = 1
                                                THEN @ \cup {frame[t].entry} ELSE @]

StartCycle(t) ==
    /\ frame[t].cycles < MaxCycles
    /\ frame' = [frame EXCEPT ![t] = [EmptyFrame EXCEPT !.each = DOMAIN registry,
                                                        !.seen = DOMAIN registry,
                                                        !.cycles = frame[t].cycles + 1]]
    /\ result' = [result EXCEPT ![t] = "none"]
    /\ pc' = [pc EXCEPT ![t] = "each"]

\* a direct call of UpdatePrometheusMetricsOnce by the application
UpdatePrometheusMetricsOnce ==
    /\ pc["once"] = "idle"
    /\ StartCycle("once")
    /\ UNCHANGED <<registry, vecs, collectors, promRegistered, promUnchecked, gauges,
                   customMetrics, labels, gaugemutex, mutex, scrape, emitted, clock,
                   ticker, log>>

\* Registry.Each calls the callback for the next entry, in no particular order:
\* lines 207-294 up to the first call
EachNext(t, name) ==
    /\ pc[t] = "each"
    /\ name \in frame[t].each
    /\ LET parsed == ParseName(name)
           m == registry[name]
           ops == OpsFor(parsed.name, parsed.extraLabels, m)
       IN  IF parsed.panic
           THEN /\ pc' = [pc EXCEPT ![t] = "panicked"]
                /\ frame' = [frame EXCEPT ![t].each = @ \ {name},
                                          ![t].entry = name,
                                          ![t].kind = m.kind,
                                          ![t].cause = "index"]
                /\ result' = [result EXCEPT ![t] = "panic"]
           ELSE /\ frame' = [frame EXCEPT ![t].each = @ \ {name},
                                          ![t].entry = name,
                                          ![t].kind = m.kind,
                                          ![t].ops = ops,
                                          ![t].read = IF m.kind \in {"Counter", "Gauge", "GaugeFloat64"}
                                                      THEN Put(@, name, m.val) ELSE @,
                                          ![t].translated = IF ops = <<>> THEN @ \cup {name} ELSE @]
                /\ pc' = [pc EXCEPT ![t] = IF ops = <<>> THEN "each" ELSE "call"]
                /\ UNCHANGED result
    /\ UNCHANGED <<registry, vecs, collectors, promRegistered, promUnchecked, gauges,
                   customMetrics, labels, gaugemutex, mutex, scrape, emitted, clock,
                   ticker, log>>

\* line 295: Each has visited every entry
ReturnNil(t) ==
    /\ pc[t] = "each"
    /\ frame[t].each = {}
    /\ result' = [result EXCEPT ![t] = "nil"]
    /\ pc' = [pc EXCEPT ![t] = IF t = "loop" THEN "wait" ELSE "idle"]
    /\ UNCHANGED <<registry, vecs, collectors, promRegistered, promUnchecked, gauges,
                   customMetrics, labels, gaugemutex, mutex, frame, scrape, emitted,
                   clock, ticker, log>>

----------------------------------------------------------------------------
(* gaugeFromNameAndValue, lines 87-125 *)

\* sync.Mutex.Lock returns once the mutex is free
LockReady(m) == m = Free

\* line 100
GaugeLock(t) ==
    /\ pc[t] = "call"
    /\ Op(t).fn = "gauge"
    /\ LockReady(gaugemutex)
    /\ gaugemutex' = t
    /\ pc' = [pc EXCEPT ![t] = "g_crit"]
    /\ UNCHANGED <<registry, vecs, collectors, promRegistered, promUnchecked, gauges,
                   customMetrics, labels, mutex, frame, result, scrape, emitted, clock,
                   ticker, log>>

\* a lookup that never finds the key: every call takes the branch of line 102
GaugeCached_Miss(key) == FALSE

\* line 101: g, ok := c.gauges[key]
GaugeCached(key) == key \in DOMAIN gauges

\* line 114: are.ExistingCollector.(*prometheus.GaugeVec)
IsGaugeVec(id) == vecs[id].type = "GaugeVec"

\* lines 101-120, with gaugemutex held
GaugeGetOrCreate(t) ==
    /\ pc[t] = "g_crit"
    /\ LET key == createKey(Op(t).name)
           new == NewGaugeVec(Op(t).name, DOMAIN LabelsOf(Op(t)))
           r == Register(new)
       IN  IF GaugeCached(key)
           THEN /\ frame' = [frame EXCEPT ![t].g = gauges[key]]
                /\ pc' = [pc EXCEPT ![t] = "g_set"]
                /\ UNCHANGED <<vecs, promRegistered, gauges, result, log>>
           ELSE IF r.err = "nil"
           THEN /\ vecs' = Append(vecs, new)
                /\ promRegistered' = promRegistered \cup {Len(vecs) + 1}
                /\ gauges' = Put(gauges, key, Len(vecs) + 1)
                /\ frame' = [frame EXCEPT ![t].g = Len(vecs) + 1]
                /\ pc' = [pc EXCEPT ![t] = "g_set"]
                /\ log' = [log EXCEPT !.gaugeRegs = Inc(@, key)]
                /\ UNCHANGED result
           ELSE IF r.err = "AlreadyRegistered"
           THEN /\ log' = [log EXCEPT !.gaugeRegs = Inc(@, key),
                                      !.dups = @ \cup {[key |-> key, existing |-> r.existing]}]
                /\ UNCHANGED <<vecs, promRegistered>>
                /\ IF IsGaugeVec(r.existing)
                   THEN /\ gauges' = Put(gauges, key, r.existing)
                        /\ frame' = [frame EXCEPT ![t].g = r.existing]
                        /\ pc' = [pc EXCEPT ![t] = "g_set"]
                        /\ UNCHANGED result
                   ELSE /\ Panic(t, "assert")
                        /\ UNCHANGED gauges
           ELSE /\ Panic(t, "register")
                /\ log' = [log EXCEPT !.gaugeRegs = Inc(@, key), !.failures = @ \cup {key}]
                /\ UNCHANGED <<vecs, promRegistered, gauges>>
    /\ UNCHANGED <<registry, collectors, promUnchecked, customMetrics, labels, gaugemutex,
                   mutex, scrape, emitted, clock, ticker>>

\* Gauge.Add in place of Gauge.Set: the value accumulates over the cycles
SetValue_Add(vals, lbls, val) ==
    Put(vals, lbls, IF lbls \in DOMAIN vals THEN vals[lbls] + val ELSE val)

\* a Set that makes the vector hold the one series written
SetValue_Reset(vals, lbls, val) == (lbls :> val)

\* Gauge.Set
SetValue(vals, lbls, val) == Put(vals, lbls, val)

\* lines 121-123: Unlock, then g.With(labels).Set(val); With panics unless the
\* labels are exactly those the vector was made with
GaugeUnlockSet(t) ==
    /\ pc[t] = "g_set"
    /\ gaugemutex' = Free
    /\ LET g == frame[t].g
           lbls == LabelsOf(Op(t))
       IN  IF DOMAIN lbls # vecs[g].labelNames
           THEN /\ Panic(t, "labels")
                /\ UNCHANGED <<vecs, log>>
           ELSE /\ vecs' = [vecs EXCEPT ![g].vals = SetValue(@, lbls, Op(t).val)]
                /\ log' = [log EXCEPT !.wrote = AddTo(@, createKey(Op(t).name),
                                                      [id |-> g, cycle |-> frame[t].cycles])]
                /\ Returned(t)
                /\ UNCHANGED result
    /\ UNCHANGED <<registry, collectors, promRegistered, promUnchecked, gauges,
                   customMetrics, labels, mutex, scrape, emitted, clock, ticker>>

----------------------------------------------------------------------------
(* histogramFromNameAndMetric, lines 127-198 *)

\* a const histogram whose buckets are cumulative counts: the number of values
\* at or below the boundary
ConstHistogram_CumulativeCounts(op, m) ==
    LET buckets == BucketsOf(op.kind) IN
    [fqName |-> HistogramFQName(op.name, TypeName(op.kind)),
     help |-> flattenKey(op.name),
     labelVals |-> LabelsOf(op),
     count |-> Len(m.samples),
     sum |-> SeqSum(m.samples),
     buckets |-> [i \in 1..Len(buckets) |->
                     [le |-> buckets[i],
                      v |-> Cardinality({j \in 1..Len(m.samples) :
                                m.samples[j] * buckets[i].den <= buckets[i].num})]]]

\* lines 137-193: the snapshot of the metric and the const histogram made of it
ConstHistogram(op, m) ==
    LET buckets == BucketsOf(op.kind) IN
    [fqName |-> HistogramFQName(op.name, TypeName(op.kind)),
     help |-> flattenKey(op.name),
     labelVals |-> LabelsOf(op),
     count |-> Len(m.samples),
     sum |-> SeqSum(m.samples),
     buckets |-> [i \in 1..Len(buckets) |->
                     [le |-> buckets[i], v |-> Percentile(m.samples, buckets[i])]]]

\* lines 128-131: collector, ok := c.customMetrics[key]
HistLookup(t) ==
    /\ pc[t] = "call"
    /\ Op(t).fn = "hist"
    /\ LET key == createKey(Op(t).name) IN
       IF key \in DOMAIN customMetrics
       THEN /\ frame' = [frame EXCEPT ![t].collector = customMetrics[key],
                                      ![t].snap = ConstHistogram(Op(t), registry[frame[t].entry])]
            /\ pc' = [pc EXCEPT ![t] = "h_lock"]
       ELSE /\ pc' = [pc EXCEPT ![t] = "h_new"]
            /\ UNCHANGED frame
    /\ UNCHANGED <<registry, vecs, collectors, promRegistered, promUnchecked, gauges,
                   customMetrics, labels, gaugemutex, mutex, result, scrape, emitted,
                   clock, ticker, log>>

\* lines 132-133: NewCustomCollector, MustRegister.  Describe sends no
\* descriptor (321-323), so the registry takes the collector unchecked.
HistRegister(t) ==
    /\ pc[t] = "h_new"
    /\ collectors' = Append(collectors, [metric |-> NilMetric])
    /\ promUnchecked' = promUnchecked \cup {Len(collectors) + 1}
    /\ frame' = [frame EXCEPT ![t].collector = Len(collectors) + 1]
    /\ log' = [log EXCEPT !.histRegs = Inc(@, createKey(Op(t).name))]
    /\ pc' = [pc EXCEPT ![t] = "h_insert"]
    /\ UNCHANGED <<registry, vecs, promRegistered, gauges, customMetrics, labels,
                   gaugemutex, mutex, result, scrape, emitted, clock, ticker>>

\* line 134, then 137-193
HistInsert(t) ==
    /\ pc[t] = "h_insert"
    /\ customMetrics' = Put(customMetrics, createKey(Op(t).name), frame[t].collector)
    /\ frame' = [frame EXCEPT ![t].snap = ConstHistogram(Op(t), registry[frame[t].entry])]
    /\ pc' = [pc EXCEPT ![t] = "h_lock"]
    /\ UNCHANGED <<registry, vecs, collectors, promRegistered, promUnchecked, gauges,
                   labels, gaugemutex, mutex, result, scrape, emitted, clock, ticker, log>>

\* line 194
HistLock(t) ==
    /\ pc[t] = "h_lock"
    /\ LockReady(mutex)
    /\ mutex' = t
    /\ pc' = [pc EXCEPT ![t] = "h_tab"]
    /\ UNCHANGED <<registry, vecs, collectors, promRegistered, promUnchecked, gauges,
                   customMetrics, labels, gaugemutex, frame, result, scrape, emitted,
                   clock, ticker, log>>

\* line 195, collector.metric = constHistogram: the type word of the interface value
HistStoreTab(t) ==
    /\ pc[t] = "h_tab"
    /\ collectors' = [collectors EXCEPT ![frame[t].collector].metric.tab = "constHistogram"]
    /\ pc' = [pc EXCEPT ![t] = "h_data"]
    /\ UNCHANGED <<registry, vecs, promRegistered, promUnchecked, gauges, customMetrics,
                   labels, gaugemutex, mutex, frame, result, scrape, emitted, clock,
                   ticker, log>>

\* a store that keeps the snapshot a collector already holds
HistStoreData_KeepFirst(t) ==
    /\ pc[t] = "h_data"
    /\ collectors' = [collectors EXCEPT ![frame[t].collector].metric.data =
                          IF @ = NoSnap THEN frame[t].snap ELSE @]
    /\ pc' = [pc EXCEPT ![t] = "h_unlock"]
    /\ log' = [log EXCEPT !.complete = Put(@, frame[t].collector, frame[t].snap),
                          !.stored = AddTo(@, createKey(Op(t).name),
                                           [id |-> frame[t].collector, cycle |-> frame[t].cycles])]
    /\ UNCHANGED <<registry, vecs, promRegistered, promUnchecked, gauges, customMetrics,
                   labels, gaugemutex, mutex, frame, result, scrape, emitted, clock,
                   ticker>>

\* line 195: the data word
HistStoreData(t) ==
    /\ pc[t] = "h_data"
    /\ collectors' = [collectors EXCEPT ![frame[t].collector].metric.data = frame[t].snap]
    /\ pc' = [pc EXCEPT ![t] = "h_unlock"]
    /\ log' = [log EXCEPT !.complete = Put(@, frame[t].collector, frame[t].snap),
                          !.stored = AddTo(@, createKey(Op(t).name),
                                           [id |-> frame[t].collector, cycle |-> frame[t].cycles])]
    /\ UNCHANGED <<registry, vecs, promRegistered, promUnchecked, gauges, customMetrics,
                   labels, gaugemutex, mutex, frame, result, scrape, emitted, clock,
                   ticker>>

\* line 196
HistUnlock(t) ==
    /\ pc[t] = "h_unlock"
    /\ mutex' = Free
    /\ Returned(t)
    /\ UNCHANGED <<registry, vecs, collectors, promRegistered, promUnchecked, gauges,
                   customMetrics, labels, gaugemutex, result, scrape, emitted, clock,
                   ticker, log>>

----------------------------------------------------------------------------
(* CustomCollector.Collect, lines 312-319, called by the exporter runtime   *)

\* the snapshots that publishers are storing into collector id right now
Storing(id) == {frame[t].snap : t \in {u \in Publishers :
                    pc[u] \in {"h_tab", "h_data"} /\ frame[u].collector = id}}

\* Collect entering without waiting for the mutex
CollectLockReady_NoMutex == TRUE

\* line 313: c.mutex.Lock() returns once the mutex is free
CollectLockReady == LockReady(mutex)

CollectLock(id) ==
    /\ pc["scrape"] = "idle"
    /\ id \in promUnchecked
    /\ log.scrapes < MaxScrapes
    /\ CollectLockReady
    /\ mutex' = "scrape"
    /\ scrape' = [collector |-> id, val |-> NilMetric, prior |-> NoSnap, storing |-> {}]
    /\ emitted' = <<>>
    /\ log' = [log EXCEPT !.scrapes = @ + 1]
    /\ pc' = [pc EXCEPT !["scrape"] = "c_read"]
    /\ UNCHANGED <<registry, vecs, collectors, promRegistered, promUnchecked, gauges,
                   customMetrics, labels, gaugemutex, frame, result, clock, ticker>>

\* lines 314-316: if c.metric != nil { val := c.metric; ch <- val (begins) }
CollectRead ==
    /\ pc["scrape"] = "c_read"
    /\ LET m == collectors[scrape.collector].metric IN
       /\ scrape' = [scrape EXCEPT !.val = m,
                                   !.prior = IF scrape.collector \in DOMAIN log.complete
                                             THEN log.complete[scrape.collector] ELSE NoSnap,
                                   !.storing = Storing(scrape.collector)]
       /\ pc' = [pc EXCEPT !["scrape"] = IF m.tab = "nil" THEN "c_unlock" ELSE "c_send"]
    /\ UNCHANGED <<registry, vecs, collectors, promRegistered, promUnchecked, gauges,
                   customMetrics, labels, gaugemutex, mutex, frame, result, emitted,
                   clock, ticker, log>>

\* line 316: the runtime receives from ch, which completes the send
ChanReceive ==
    /\ pc["scrape"] = "c_send"
    /\ emitted' = Append(emitted, scrape.val)
    /\ pc' = [pc EXCEPT !["scrape"] = "c_unlock"]
    /\ UNCHANGED <<registry, vecs, collectors, promRegistered, promUnchecked, gauges,
                   customMetrics, labels, gaugemutex, mutex, frame, result, scrape,
                   clock, ticker, log>>

\* line 318
CollectUnlock ==
    /\ pc["scrape"] = "c_unlock"
    /\ mutex' = Free
    /\ pc' = [pc EXCEPT !["scrape"] = "idle"]
    /\ UNCHANGED <<registry, vecs, collectors, promRegistered, promUnchecked, gauges,
                   customMetrics, labels, gaugemutex, frame, result, scrape, emitted,
                   clock, ticker, log>>

----------------------------------------------------------------------------
(* UpdatePrometheusMetrics, lines 200-204: for _ = range time.Tick(interval) *)

\* a ticker that has a tick ready when it is created
TickerInit_TickAtStart(now) == [next |-> now + FlushInterval, pending |-> TRUE]

\* time.Tick: the first tick is sent one interval after the call
TickerInit(now) == [next |-> now + FlushInterval, pending |-> FALSE]

\* go c.UpdatePrometheusMetrics()
LoopStart ==
    /\ pc["loop"] = "off"
    /\ ticker' = TickerInit(clock)
    /\ pc' = [pc EXCEPT !["loop"] = "wait"]
    /\ log' = [log EXCEPT !.startedAt = clock]
    /\ UNCHANGED <<registry, vecs, collectors, promRegistered, promUnchecked, gauges,
                   customMetrics, labels, gaugemutex, mutex, frame, result, scrape,
                   emitted, clock>>

\* time passes; the ticker sends into its channel of capacity 1 and drops the
\* tick when the channel is full
ClockTick ==
    /\ clock < MaxClock
    /\ clock' = clock + 1
    /\ ticker' = IF pc["loop"] # "off" /\ clock + 1 = ticker.next
                 THEN [next |-> ticker.next + FlushInterval, pending |-> TRUE]
                 ELSE ticker
    /\ UNCHANGED <<registry, vecs, collectors, promRegistered, promUnchecked, gauges,
                   customMetrics, labels, gaugemutex, mutex, pc, frame, result, scrape,
                   emitted, log>>

\* a loop that starts a cycle at every tick without waiting for the previous one
LoopReceive_Overlapping ==
    /\ pc["loop"] \notin {"off", "panicked"}
    /\ ticker.pending
    /\ ticker' = [ticker EXCEPT !.pending = FALSE]
    /\ StartCycle("loop")
    /\ log' = [log EXCEPT !.cycleAt = Append(@, clock)]
    /\ UNCHANGED <<registry, vecs, collectors, promRegistered, promUnchecked, gauges,
                   customMetrics, labels, gaugemutex, mutex, scrape, emitted, clock>>

\* lines 201-202: a tick is received and UpdatePrometheusMetricsOnce is called
LoopReceive ==
    /\ pc["loop"] = "wait"
    /\ ticker.pending
    /\ ticker' = [ticker EXCEPT !.pending = FALSE]
    /\ StartCycle("loop")
    /\ log' = [log EXCEPT !.cycleAt = Append(@, clock)]
    /\ UNCHANGED <<registry, vecs, collectors, promRegistered, promUnchecked, gauges,
                   customMetrics, labels, gaugemutex, mutex, scrape, emitted, clock>>

----------------------------------------------------------------------------
(* The inputs: names and metrics of the source registry *)

N_counter == <<"c">>
N_dot == <<"g", ".", "a">>
N_us == <<"g", "_", "a">>
N_b1 == <<"x", "-">> \o FOR_BROKER \o <<"-", "1">>
N_b2 == <<"x", "-">> \o FOR_BROKER \o <<"-", "2">>
N_bad == <<"x", "-">> \o FOR_BROKER
N_other == <<"u">>
N_hist == <<"h">>
N_meter == <<"m">>
N_timer == <<"t", "m">>

Scalars(names, kinds) == {[name |-> n, metric |-> Metric(k, v, <<>>)] :
                             n \in names, k \in kinds, v \in {1}}

Sources ==
    Scalars({N_counter, N_b1}, {"Counter"})
    \cup Scalars({N_dot, N_b2}, {"Gauge"})
    \cup Scalars({N_us}, {"GaugeFloat64"})
    \cup {[name |-> N_bad, metric |-> Metric("Counter", 0, <<>>)],
          [name |-> N_bad, metric |-> Metric("Other", 0, <<>>)],
          [name |-> N_other, metric |-> Metric("Other", 0, <<>>)],
          [name |-> N_hist, metric |-> Metric("Histogram", 0, <<>>)],
          [name |-> N_hist, metric |-> Metric("Histogram", 0, <<MaxVal>>)],
          [name |-> N_meter, metric |-> Metric("Meter", 0, <<>>)]}

\* the sources whose publication goes through a CustomCollector
DistributionSources ==
    {[name |-> N_hist, metric |-> Metric("Histogram", 0, <<>>)],
     [name |-> N_hist, metric |-> Metric("Histogram", 0, <<MaxVal>>)],
     [name |-> N_timer, metric |-> Metric("Timer", 0, <<>>)]}

Names == {s.name : s \in Sources \cup DistributionSources}

----------------------------------------------------------------------------
(* Specifications *)

Init == InitWith(NoLabels)

Environment ==
    \/ \E s \in Sources : SrcRegister(s.name, s.metric)
    \/ \E n \in Names : SrcUnregister(n)
    \/ \E n \in Names, v \in 0..MaxVal : SrcUpdate(n, v)
    \/ \E n \in {N_counter, N_dot}, type \in {"GaugeVec", "Gauge"} : ExternalRegister(n, type)

Publish(t) ==
    \/ \E n \in Names : EachNext(t, n)
    \/ ReturnNil(t)
    \/ GaugeLock(t)
    \/ GaugeGetOrCreate(t)
    \/ GaugeUnlockSet(t)
    \/ HistLookup(t)
    \/ HistRegister(t)
    \/ HistInsert(t)
    \/ HistLock(t)
    \/ HistStoreTab(t)
    \/ HistStoreData(t)
    \/ HistUnlock(t)

\* the application calls UpdatePrometheusMetricsOnce, one call after another
Next ==
    \/ Environment
    \/ UpdatePrometheusMetricsOnce
    \/ Publish("once")

Spec == Init /\ [][Next]_vars

\* the sources of the loop's registry: a counter, a histogram, a bad name
LoopSources ==
    {[name |-> N_counter, metric |-> Metric("Counter", 1, <<>>)],
     [name |-> N_hist, metric |-> Metric("Histogram", 0, <<>>)],
     [name |-> N_bad, metric |-> Metric("Gauge", 1, <<>>)]}

\* go c.UpdatePrometheusMetrics(): cycles are started by the ticker only
NextLoop ==
    \/ \E s \in LoopSources : SrcRegister(s.name, s.metric)
    \/ \E n \in Names, v \in 0..MaxVal : SrcUpdate(n, v)
    \/ LoopStart
    \/ ClockTick
    \/ LoopReceive
    \/ Publish("loop")

\* Time passes, and the Go scheduler runs the loop's goroutine whenever it can
\* take a step.
SpecLoop ==
    /\ Init
    /\ [][NextLoop]_vars
    /\ WF_vars(ClockTick)
    /\ WF_vars(LoopReceive)
    /\ WF_vars(Publish("loop"))

\* direct calls, with the exporter runtime scraping the collectors
NextScrape ==
    \/ \E s \in DistributionSources : SrcRegister(s.name, s.metric)
    \/ \E n \in Names, v \in 1..MaxVal : SrcUpdate(n, v)
    \/ UpdatePrometheusMetricsOnce
    \/ Publish("once")
    \/ \E id \in 1..Len(collectors) : CollectLock(id)
    \/ CollectRead
    \/ ChanReceive
    \/ CollectUnlock

SpecScrape == Init /\ [][NextScrape]_vars

----------------------------------------------------------------------------
(* What the Prometheus registry exports *)


\* the value of the series fqName{lbls} among the registered gauge collectors
SeriesValue(fqName, lbls) ==
    LET ids == {i \in promRegistered : vecs[i].fqName = fqName /\ lbls \in DOMAIN vecs[i].vals}
    IN  IF ids = {} THEN -1 ELSE vecs[CHOOSE i \in ids : TRUE].vals[lbls]

\* the series a scalar source metric is published as
ExportedValue(name) ==
    SeriesValue(GaugeFQName(ParseName(name).name), ParseName(name).extraLabels @@ labels)

Completed(t) == pc[t] \in {"idle", "wait"} /\ result[t] = "nil"

Ids(writes) == {w.id : w \in writes}
Cycles(writes) == {w.cycle : w \in writes}

----------------------------------------------------------------------------
(* Properties *)

\* C1 (identity stability): over any sequence of UpdatePrometheusMetricsOnce
\* calls the provider registers at most one gauge family and at most one
\* collector per identity key, every write for a key goes to one and the same
\* object, and the registry never rejects a registration as a duplicate of a
\* collector the provider registered itself.
C1_IdentityStability ==
    /\ \A k \in DOMAIN log.gaugeRegs : log.gaugeRegs[k] <= 1
    /\ \A k \in DOMAIN log.histRegs : log.histRegs[k] <= 1
    /\ \A k \in DOMAIN log.wrote : Cardinality(Ids(log.wrote[k])) <= 1
    /\ \A k \in DOMAIN log.stored : Cardinality(Ids(log.stored[k])) <= 1
    /\ \A d \in log.dups : vecs[d.existing].owner = "external"

\* a gauge key and a collector key have each been written in two cycles
C1_Witness ==
    /\ \E k \in DOMAIN log.wrote : Cardinality(Cycles(log.wrote[k])) >= 2
    /\ \E k \in DOMAIN log.stored : Cardinality(Cycles(log.stored[k])) >= 2

\* C2 (value passthrough with overwrite): when a publish cycle has completed,
\* the exported series of every Counter, Gauge and GaugeFloat64 the cycle
\* visited reads exactly the value the cycle read from the source, whatever an
\* earlier cycle published.
C2_ValuePassthrough ==
    Completed("once") =>
        \A n \in DOMAIN frame["once"].read : ExportedValue(n) = frame["once"].read[n]

\* the second cycle has completed and published the counter's new value, MaxVal,
\* over the value the first cycle published
C2_Witness ==
    /\ Completed("once")
    /\ frame["once"].cycles = 2
    /\ log.updates = 1
    /\ N_counter \in DOMAIN frame["once"].read
    /\ frame["once"].read[N_counter] = MaxVal
    /\ ExportedValue(N_counter) = MaxVal
    /\ Cardinality(Cycles(log.wrote[createKey(N_counter)])) = 2

\* C6 (duplicate registration is recoverable): whenever the registry has
\* rejected a registration of the provider as a duplicate, the provider has
\* cached the collector that was already registered under the key and has not
\* failed.
C6_DuplicateReused ==
    \A d \in log.dups :
        /\ d.key \in DOMAIN gauges
        /\ gauges[d.key] = d.existing
        /\ \A t \in Publishers : frame[t].cause # "assert"

\* C7 (other registration failures are returned): after a registration failure
\* that is not a duplicate, the call of UpdatePrometheusMetricsOnce has not
\* panicked and its result is a non-nil error.
C7_FailureReturnedAsError ==
    \A t \in Publishers :
        frame[t].cause = "register" => pc[t] # "panicked" /\ result[t] = "error"

\* C8 (unknown-kind resilience): an entry of an unrecognized kind makes the
\* cycle register nothing and write nothing, and raises no panic; the
\* recognized entries of the registry are published.
C8_UnknownKindSkipped ==
    \A t \in Publishers :
        frame[t].kind = "Other" => /\ pc[t] # "panicked"
                                   /\ frame[t].ops = <<>>
                                   /\ frame[t].entry \in frame[t].translated

\* C9 (per-metric fault isolation): when the translation of one entry has
\* failed, every other entry of the registry is still translated in that cycle.
C9_FaultIsolation ==
    \A t \in Publishers :
        pc[t] = "panicked" => frame[t].seen \ {frame[t].entry} \subseteq frame[t].translated

\* a name that contains the pattern word but not "-<word>-"
Malformed(name) ==
    \/ Contains(name, FOR_BROKER) /\ ~Contains(name, <<"-">> \o FOR_BROKER \o <<"-">>)
    \/ Contains(name, FOR_TOPIC) /\ ~Contains(name, <<"-">> \o FOR_TOPIC \o <<"-">>)

\* C10 (malformed structured name): an entry whose name only partially matches
\* a compound pattern raises no panic and is translated under its full
\* original name with no extra label.
C10_MalformedNameLiteral ==
    \A t \in Publishers :
        Malformed(frame[t].entry) =>
            /\ frame[t].cause # "index"
            /\ \A i \in 1..Len(frame[t].ops) :
                  frame[t].ops[i].name = frame[t].entry /\ frame[t].ops[i].extraLabels = NoLabels

\* C3, as claimed (the first cycle runs immediately on start): the first cycle
\* of the loop starts before one interval has elapsed since the loop started.
C3_FirstCycleImmediate ==
    Len(log.cycleAt) >= 1 => log.cycleAt[1] < log.startedAt + FlushInterval

\* C3, amended: the loop starts no cycle before one full FlushInterval has
\* elapsed since it was started, and at most one cycle per elapsed interval:
\* its k-th cycle starts no earlier than k intervals after the start.
C3_CycleAfterEachInterval ==
    \A k \in 1..Len(log.cycleAt) : log.cycleAt[k] >= log.startedAt + k * FlushInterval

\* the loop has started its second cycle
C3_Witness == Len(log.cycleAt) = 2 /\ pc["loop"] = "each"

\* name is published: a gauge family is registered under its flattened name
\* or, for a histogram or timer, its collector is registered
Published(name) ==
    \/ \E i \in promRegistered : vecs[i].fqName = GaugeFQName(ParseName(name).name)
    \/ /\ createKey(ParseName(name).name) \in DOMAIN customMetrics
       /\ customMetrics[createKey(ParseName(name).name)] \in promUnchecked

\* the loop is waiting for its first tick, which will come
AwaitingFirstTick ==
    /\ pc["loop"] = "wait"
    /\ log.cycleAt = <<>>
    /\ ticker.pending \/ ticker.next <= MaxClock

\* C4 (liveness of publication): every recognized metric that is in the source
\* registry while the loop waits for its first tick is eventually published in
\* the exporter registry.
C4_EventuallyPublished ==
    \A n \in Names :
        (AwaitingFirstTick /\ n \in DOMAIN registry /\ registry[n].kind \in Recognized
         /\ ~ParseName(n).panic)
            ~> Published(n)

\* C5 (concurrent scrape safety): a Collect call sends at most one metric, and
\* what it sends is a complete snapshot: the one last stored completely before
\* Collect read the field, or one being stored at that moment; with nothing
\* stored it sends nothing.
C5_CollectSeesCompleteSnapshot ==
    LET sent == IF pc["scrape"] = "c_send" THEN Append(emitted, scrape.val) ELSE emitted
        held == ({scrape.prior} \cup scrape.storing) \ {NoSnap}
    IN  /\ Len(sent) <= 1
        /\ \A i \in 1..Len(sent) : sent[i].tab = "constHistogram" /\ sent[i].data \in held
        /\ pc["scrape"] \in {"c_send", "c_unlock"} /\ held = {} => sent = <<>>

\* Collect has sent the snapshot of the first cycle while the second cycle
\* waits for the mutex to store a different one into the same collector
C5_Witness ==
    /\ pc["scrape"] = "c_unlock"
    /\ Len(emitted) = 1
    /\ pc["once"] = "h_lock"
    /\ frame["once"].collector = scrape.collector
    /\ frame["once"].snap # emitted[1].data

\* the name an entry is published under, after the extraction of lines 210-220
PublishedName(name) == ParseName(name).name

\* C11 (identity key and exported name never diverge): any two entries of the
\* source registry have the same identity key exactly when they have the same
\* exported series name.
C11_KeyMatchesExportedName ==
    \A a, b \in DOMAIN registry :
        ~ParseName(a).panic /\ ~ParseName(b).panic =>
            ((createKey(PublishedName(a)) = createKey(PublishedName(b)))
                <=> (GaugeFQName(PublishedName(a)) = GaugeFQName(PublishedName(b))))

----------------------------------------------------------------------------
(* Removal of metrics from the source registry *)

\* NewPrometheusProvider, lines 37-54, over a registry r the application has
\* filled before
InitOver(r, l) ==
    /\ registry = r
    /\ vecs = <<>>
    /\ collectors = <<>>
    /\ promRegistered = {}
    /\ promUnchecked = {}
    /\ gauges = <<>>
    /\ customMetrics = <<>>
    /\ labels = l
    /\ gaugemutex = Free
    /\ mutex = Free
    /\ pc = [once |-> "idle", loop |-> "off", scrape |-> "idle"]
    /\ frame = [t \in Publishers |-> EmptyFrame]
    /\ result = [t \in Publishers |-> "none"]
    /\ scrape = [collector |-> NoId, val |-> NilMetric, prior |-> NoSnap, storing |-> {}]
    /\ emitted = <<>>
    /\ clock = 0
    /\ ticker = [next |-> 0, pending |-> FALSE]
    /\ log = EmptyLog

\* registries of two entries: a counter and a histogram; two brokers of one family
EvictRegistries ==
    {(N_counter :> Metric("Counter", 1, <<>>)) @@ (N_hist :> Metric("Histogram", 0, <<1>>)),
     (N_b1 :> Metric("Counter", 1, <<>>)) @@ (N_b2 :> Metric("Gauge", 1, <<>>))}

InitEvict == \E r \in EvictRegistries : InitOver(r, NoLabels)

NextEvict ==
    \/ \E n \in Names : SrcUnregister(n)
    \/ \E n \in Names, v \in 0..MaxVal : SrcUpdate(n, v)
    \/ UpdatePrometheusMetricsOnce
    \/ Publish("once")

SpecEvict == InitEvict /\ [][NextEvict]_vars

\* entry n of the source registry is published into series lbls of vector g
Feeds(n, g, lbls) ==
    /\ ~ParseName(n).panic
    /\ vecs[g].fqName = GaugeFQName(PublishedName(n))
    /\ \A k \in DOMAIN (ParseName(n).extraLabels @@ labels) :
          k \in DOMAIN lbls /\ lbls[k] = (ParseName(n).extraLabels @@ labels)[k]

\* entry n of the source registry is published into collector id
FeedsCollector(n, id) ==
    /\ ~ParseName(n).panic
    /\ createKey(PublishedName(n)) \in DOMAIN customMetrics
    /\ customMetrics[createKey(PublishedName(n))] = id

\* C12 (no eviction): no step removes or replaces a cached series or collector
\* or unregisters it, no step removes a series from its vector, and a step
\* leaves unchanged the value of every series and the snapshot of every
\* collector whose metric is not in the source registry.
C12_NoEviction ==
    [][/\ \A k \in DOMAIN gauges : k \in DOMAIN gauges' /\ gauges'[k] = gauges[k]
       /\ \A k \in DOMAIN customMetrics :
             k \in DOMAIN customMetrics' /\ customMetrics'[k] = customMetrics[k]
       /\ promRegistered \subseteq promRegistered'
       /\ promUnchecked \subseteq promUnchecked'
       /\ \A g \in DOMAIN vecs : \A lbls \in DOMAIN vecs[g].vals :
             /\ lbls \in DOMAIN vecs'[g].vals
             /\ (\A n \in DOMAIN registry : ~Feeds(n, g, lbls))
                   => vecs'[g].vals[lbls] = vecs[g].vals[lbls]
       /\ \A id \in DOMAIN collectors :
             (\A n \in DOMAIN registry : ~FeedsCollector(n, id))
                 => collectors'[id] = collectors[id]]_vars

\* a second cycle has completed and translated an entry after another entry
\* was removed from the source registry; the removed entry's series is still
\* cached, registered and holds the value the first cycle published
C12_Witness ==
    \E n \in Names \ DOMAIN registry :
        /\ Completed("once")
        /\ frame["once"].cycles = 2
        /\ frame["once"].translated # {}
        /\ createKey(PublishedName(n)) \in DOMAIN gauges
        /\ gauges[createKey(PublishedName(n))] \in promRegistered
        /\ ExportedValue(n) = 1
        /\ \E m \in DOMAIN registry : ExportedValue(m) = MaxVal

----------------------------------------------------------------------------
(* Families of structured names *)

\* registries of two brokers of one base name: two scalars, two histograms
FamilyRegistries ==
    {(N_b1 :> Metric("Counter", 1, <<>>)) @@ (N_b2 :> Metric("Gauge", 2, <<>>)),
     (N_b1 :> Metric("Histogram", 0, <<1>>)) @@ (N_b2 :> Metric("Histogram", 0, <<2>>))}

InitFamily == \E r \in FamilyRegistries : InitOver(r, NoLabels)

NextFamily ==
    \/ \E n \in Names, v \in 0..MaxVal : SrcUpdate(n, v)
    \/ UpdatePrometheusMetricsOnce
    \/ Publish("once")

SpecFamily == InitFamily /\ [][NextFamily]_vars

\* the distribution series that the registered collectors hold, by label values
HeldDistributions ==
    {collectors[id].metric.data.labelVals :
        id \in {i \in promUnchecked : collectors[i].metric.tab # "nil"}}

\* C13 (structured-name extraction): when a cycle has completed, every entry
\* named <base>-for-broker-<id> it visited is published in the family of
\* <base>-for-broker, registered once, as the sub-series labelled
\* for_broker = <id>: a scalar with the value read from it, a histogram with a
\* distribution series of its own.
C13_OneSubSeriesPerSuffix ==
    Completed("once") =>
        \A n \in frame["once"].seen :
            ParseName(n).extraLabels # NoLabels =>
                /\ PublishedName(n) = <<"x", "-">> \o FOR_BROKER
                /\ createKey(PublishedName(n)) \in DOMAIN log.gaugeRegs
                /\ log.gaugeRegs[createKey(PublishedName(n))] = 1
                /\ n \in DOMAIN frame["once"].read => ExportedValue(n) = frame["once"].read[n]
                /\ registry[n].kind = "Histogram" =>
                      (ParseName(n).extraLabels @@ labels) \in HeldDistributions

----------------------------------------------------------------------------
(* Meters and timers *)

\* the value of the sub-series rate_unit = unit of entry n, or -1
SubSeries(n, unit) ==
    SeriesValue(GaugeFQName(PublishedName(n)),
                RateUnit(ParseName(n).extraLabels, unit) @@ labels)

TimerAt(m, k) == Metric("Timer", k, SubSeq(m.samples, 1, k))

\* the labels and values of the series the Meter case would write for metric m
MeterSeriesOf(n, m) ==
    LET ops == MeterOps(PublishedName(n), ParseName(n).extraLabels, m)
    IN  {[unit |-> ops[i].extraLabels["rate_unit"][1], val |-> ops[i].val] : i \in 1..Len(ops)}

\* C15, as claimed (a Timer has the rate and count sub-series of a Meter, the
\* same label values denoting the same statistics): when a cycle has completed,
\* every sub-series the Meter case would write for a timer's snapshot is held
\* by the timer's family under the same rate_unit with the same value.
C15_TimerHasMeterSeries ==
    Completed("once") =>
        \A n \in frame["once"].seen \cap DOMAIN registry :
            registry[n].kind = "Timer" =>
                \E k \in 0..Len(registry[n].samples) :
                    \A s \in MeterSeriesOf(n, TimerAt(registry[n], k)) :
                        SubSeries(n, s.unit) = s.val

\* C15, amended: when a cycle has completed, every Timer it visited has the
\* sub-series rate1, rate5, rate15 and count as a Meter has, the mean rate
\* under rate_unit = "rate_mean", and sum, max, min, mean, variance and
\* std_dev, all from one snapshot of the timer, and its collector, cached
\* and registered, holds one distribution series named <name>_timer made from
\* a snapshot of the timer with the timer boundaries.
C15_TimerPublication ==
    Completed("once") =>
        \A n \in frame["once"].seen \cap DOMAIN registry :
            registry[n].kind = "Timer" =>
                /\ \E k \in 0..Len(registry[n].samples) :
                      LET m == TimerAt(registry[n], k) IN
                      /\ log.updates = 0 => k = Len(registry[n].samples)
                      /\ SubSeries(n, "rate1") = m.stats.rate1
                      /\ SubSeries(n, "rate5") = m.stats.rate5
                      /\ SubSeries(n, "rate15") = m.stats.rate15
                      /\ SubSeries(n, "rate_mean") = m.stats.rateMean
                      /\ SubSeries(n, "count") = k
                      /\ SubSeries(n, "sum") = SeqSum(m.samples)
                      /\ SubSeries(n, "max") = SeqMax(m.samples)
                      /\ SubSeries(n, "min") = SeqMin(m.samples)
                      /\ SubSeries(n, "mean") = m.stats.mean
                      /\ SubSeries(n, "variance") = m.stats.variance
                      /\ SubSeries(n, "std_dev") = m.stats.stdDev
                /\ createKey(PublishedName(n)) \in DOMAIN customMetrics
                /\ LET id == customMetrics[createKey(PublishedName(n))]
                       held == collectors[id].metric
                   IN  /\ id \in promUnchecked
                       /\ held.tab = "constHistogram"
                       /\ held.data.fqName =
                             GaugeFQName(PublishedName(n)) \o <<"_", "t", "i", "m", "e", "r">>
                       /\ [i \in 1..Len(held.data.buckets) |-> held.data.buckets[i].le]
                             = timerBuckets
                       /\ \E k \in 0..Len(registry[n].samples) :
                             held.data = ConstHistogram(
                                 HistOp(PublishedName(n), "Timer", ParseName(n).extraLabels),
                                 TimerAt(registry[n], k))

\* the second cycle has published the timer after it was updated with a value
C15_Witness ==
    /\ Completed("once")
    /\ frame["once"].cycles = 2
    /\ N_timer \in frame["once"].translated
    /\ N_timer \in DOMAIN registry
    /\ Len(registry[N_timer].samples) = 1
    /\ SubSeries(N_timer, "count") = 1
    /\ SubSeries(N_timer, "max") = MaxVal
    /\ collectors[customMetrics[createKey(N_timer)]].metric.data.count = 1

----------------------------------------------------------------------------
(* Distribution series *)

\* the snapshots held by the collectors
HeldSnapshots ==
    {collectors[id].metric.data :
        id \in {i \in DOMAIN collectors : collectors[i].metric.tab # "nil"
                                          /\ collectors[i].metric.data # NoSnap}}

\* C16 (histogram percentile monotonicity): in every distribution series a
\* collector holds, the bucket values do not decrease as the boundary
\* increases, and the value of the last boundary is at most the sample count.
C16_BucketsMonotoneUpToCount ==
    \A h \in HeldSnapshots :
        /\ \A i \in 1..Len(h.buckets) - 1 : h.buckets[i].v <= h.buckets[i + 1].v
        /\ h.buckets # <<>> => h.buckets[Len(h.buckets)].v <= h.count

----------------------------------------------------------------------------
(* flattenKey over all short names *)

\* the characters flattenKey replaces, lines 75-79
Disallowed == {" ", ".", "-", "=", "/"}

\* every name of 1 to MaxLen characters: the replaced ones, "_" and a letter
FlatNames == UNION {[1..k -> Disallowed \cup {"_", "a"}] : k \in 1..MaxLen}

\* the application registers one counter under any of the names and publishes it
NextFlatten ==
    \/ \E n \in FlatNames : registry = <<>> /\ SrcRegister(n, Metric("Counter", 1, <<>>))
    \/ UpdatePrometheusMetricsOnce
    \/ \E n \in FlatNames : EachNext("once", n)
    \/ ReturnNil("once")
    \/ GaugeLock("once")
    \/ GaugeGetOrCreate("once")
    \/ GaugeUnlockSet("once")

SpecFlatten == Init /\ [][NextFlatten]_vars

\* C17 (flattening): flattenKey leaves a name without disallowed characters
\* unchanged, is idempotent, and its result has no disallowed character; the
\* name of every family the provider registers is made of such a result.
C17_FlattenKey ==
    /\ \A n \in DOMAIN registry :
          /\ (\A i \in 1..Len(n) : n[i] \notin Disallowed) => flattenKey(n) = n
          /\ flattenKey(flattenKey(n)) = flattenKey(n)
          /\ Len(flattenKey(n)) = Len(n)
          /\ \A i \in 1..Len(n) : flattenKey(n)[i] \notin Disallowed
    /\ \A id \in promRegistered :
          /\ vecs[id].fqName = <<"t", "_", "s", "_">> \o flattenKey(vecs[id].help)
          /\ \A i \in 1..Len(vecs[id].fqName) : vecs[id].fqName[i] \notin Disallowed

\* the counter named "a/." has been published as t_s_a__
C17_Witness ==
    \E id \in promRegistered :
        /\ vecs[id].help = <<"a", "/", ".">>
        /\ vecs[id].fqName = <<"t", "_", "s", "_", "a", "_", "_">>
        /\ vecs[id].vals # <<>>

----------------------------------------------------------------------------
(* The cycles of the loop *)

\* the loop's thread is inside UpdatePrometheusMetricsOnce
Executing(t) == pc[t] \notin {"idle", "off", "wait", "panicked"}

\* C18 (no overlapping cycles): the loop starts a cycle only when it is waiting
\* for a tick, its previous cycle having visited every entry, finished every
\* call and released the mutexes.
C18_NoOverlappingCycles ==
    [][Len(log'.cycleAt) > Len(log.cycleAt) =>
          /\ ~Executing("loop")
          /\ pc["loop"] = "wait"
          /\ frame["loop"].each = {}
          /\ frame["loop"].ops = <<>>
          /\ gaugemutex # "loop"
          /\ mutex # "loop"]_vars

\* a tick has arrived while the first cycle of the loop is still executing: no
\* second cycle has started
C18_Witness ==
    /\ Executing("loop")
    /\ ticker.pending
    /\ Len(log.cycleAt) = 1
    /\ frame["loop"].cycles = 1
    /\ clock >= log.cycleAt[1] + FlushInterval

----------------------------------------------------------------------------
(* Collect beside a snapshot update *)

\* C19 (Collect neither blocks nor is blocked by an update): a publisher that
\* is about to store a snapshot is never kept waiting by a Collect call in
\* progress, whether or not its channel has been drained, and a Collect call
\* that begins is never kept waiting by a publisher storing a snapshot.
C19_NoMutualBlocking ==
    /\ \A t \in Publishers : pc[t] = "h_lock" => mutex # "scrape"
    /\ pc["scrape"] = "idle" /\ promUnchecked # {} => mutex \notin Publishers

----------------------------------------------------------------------------
(* The loop and a direct call publishing at the same time *)

\* the application has registered a histogram with one value
InitConcurrent ==
    InitOver((N_hist :> Metric("Histogram", 0, <<1>>)), NoLabels)

\* go c.UpdatePrometheusMetrics() beside calls of c.UpdatePrometheusMetricsOnce()
NextConcurrent ==
    \/ LoopStart
    \/ ClockTick
    \/ LoopReceive
    \/ Publish("loop")
    \/ UpdatePrometheusMetricsOnce
    \/ Publish("once")

SpecConcurrent == InitConcurrent /\ [][NextConcurrent]_vars

\* C20 (atomic lazy creation): with cycles running concurrently, the provider
\* creates and registers at most one gauge family and at most one collector
\* for an identity key.
C20_CreatedOncePerKey ==
    /\ \A k \in DOMAIN log.gaugeRegs : log.gaugeRegs[k] <= 1
    /\ \A k \in DOMAIN log.histRegs : log.histRegs[k] <= 1

----------------------------------------------------------------------------
(* The snapshot a collector holds after a cycle *)

\* the histogram or timer m as it was when it held its first k values
SnapshotAt(m, k) ==
    Metric(m.kind, IF m.kind = "Timer" THEN k ELSE m.val, SubSeq(m.samples, 1, k))

\* the entries of the source registry published through a collector
Distributions == {n \in DOMAIN registry : registry[n].kind \in {"Histogram", "Timer"}}

\* the const histograms that can be made of entry n under the key of name
SnapshotsOf(n) ==
    {ConstHistogram(HistOp(PublishedName(n), registry[n].kind, ParseName(n).extraLabels),
                    SnapshotAt(registry[n], k)) : k \in 0..Len(registry[n].samples)}

C22_PercentileBuckets ==
    \A n \in Distributions :
        LET key == createKey(PublishedName(n))
            b == BucketsOf(registry[n].kind)
        IN  key \in DOMAIN customMetrics /\ collectors[customMetrics[key]].metric.data # NoSnap =>
                LET h == collectors[customMetrics[key]].metric.data IN
                \E k \in 0..Len(registry[n].samples) :
                    LET values == SubSeq(registry[n].samples, 1, k) IN
                    /\ h.count = k
                    /\ h.sum = SeqSum(values)
                    /\ Len(h.buckets) = Len(b)
                    /\ \A i \in 1..Len(b) :
                          /\ h.buckets[i].le = b[i]
                          /\ h.buckets[i].v = Percentile(values, b[i])

\* a collector holds the series of a histogram with the one value MaxVal:
\* every bucket holds MaxVal, although no value is at or below a boundary
C22_Witness ==
    /\ N_hist \in Distributions
    /\ createKey(N_hist) \in DOMAIN customMetrics
    /\ LET h == collectors[customMetrics[createKey(N_hist)]].metric.data IN
       /\ h.count = 1
       /\ h.sum = MaxVal
       /\ Len(h.buckets) = Len(histogramBuckets)
       /\ \A i \in 1..Len(h.buckets) : h.buckets[i].v = MaxVal

----------------------------------------------------------------------------
(* The label names of a gauge family *)

\* WithLabels, lines 69-72, called between two cycles
WithLabels(l) ==
    /\ Quiet
    /\ labels # l
    /\ labels' = l
    /\ UNCHANGED <<registry, vecs, collectors, promRegistered, promUnchecked, gauges,
                   customMetrics, gaugemutex, mutex, pc, frame, result, scrape, emitted,
                   clock, ticker, log>>

N_tu == <<"x", "-">> \o FOR_TOPIC \o <<"-", "u">>
N_tb == <<"x", "-">> \o FOR_TOPIC \o <<"-", "t", "-">> \o FOR_BROKER \o <<"-", "1">>

\* the label sets the application configures
LabelSets == {NoLabels, ("env" :> <<"p">>)}

\* registries: one counter; a counter and a meter of one broker family; a
\* topic name and a topic-and-broker name of one base
LabelRegistries ==
    {(N_counter :> Metric("Counter", 1, <<>>)),
     (N_b1 :> Metric("Counter", 1, <<>>)) @@ (N_b2 :> Metric("Meter", 1, <<>>)),
     (N_tu :> Metric("Counter", 1, <<>>)) @@ (N_tb :> Metric("Counter", 2, <<>>))}

InitLabels == \E r \in LabelRegistries, l \in LabelSets : InitOver(r, l)

NextLabels ==
    \/ \E l \in LabelSets : WithLabels(l)
    \/ UpdatePrometheusMetricsOnce
    \/ \E n \in {N_counter, N_b1, N_b2, N_tu, N_tb} : EachNext("once", n)
    \/ ReturnNil("once")
    \/ GaugeLock("once")
    \/ GaugeGetOrCreate("once")
    \/ GaugeUnlockSet("once")

SpecLabels == InitLabels /\ [][NextLabels]_vars

\* C23 (label-set consistency of a cached gauge family): every call that
\* reaches the write of line 123 passes exactly the label names its family was
\* created with, and no write has failed on its labels.
C23_LabelNamesAsCreated ==
    \A t \in Publishers :
        /\ pc[t] = "g_set" => DOMAIN LabelsOf(Op(t)) = vecs[frame[t].g].labelNames
        /\ frame[t].cause # "labels"

----------------------------------------------------------------------------
(* The locks when a function is left *)

\* C24 (lock release on every exit): a publisher that is outside
\* gaugeFromNameAndValue and histogramFromNameAndMetric, whether it returned or
\* panicked, holds neither gaugemutex nor a collector's mutex, and no mutex is
\* held for an exporter that is outside Collect.
C24_LocksReleasedOnExit ==
    /\ \A t \in Publishers :
           pc[t] \in {"idle", "off", "wait", "each", "call", "panicked"}
               => gaugemutex # t /\ mutex # t
    /\ pc["scrape"] = "idle" => mutex # "scrape"

====
